---- MODULE Spec2Model ----
(***************************************************************************)
(* Time-interval allocation model of aircraft-allocation-map.              *)
(*                                                                         *)
(* The committed allocation set lives in the table aircraft_allocations,   *)
(* guarded by the exclusion constraint no_overlapping_periods.  Clients    *)
(* write through the allocation dialog: handleSubmit validates the form    *)
(* against the client's cached list of the aircraft's allocations          *)
(* (useOverlapValidation) and then awaits the insert/update, which the     *)
(* database decides.  Times are whole minutes (the datetime-local form     *)
(* fields have minute resolution); view times are finer (ticks).           *)
(***************************************************************************)
EXTENDS Integers, FiniteSets, Sequences, TLC

\* ---------------------------------------------------------------- bounds
MaxTime == 2            \* period bounds range over minutes 0..MaxTime
MaxRows == 2            \* ids handed out by the table: 1..MaxRows
TicksPerMinute == 2     \* resolution of a view time inside one minute
MinutesPerDay == 2      \* length of a calendar day in minutes

NULL == -1              \* SQL NULL / JS null for period_end
NoId == 0               \* excludeId undefined, no row

Clients == {1, 2}
Tails == {"N1", "N2"}
Stations == {"DFW", "CLT"}
Carriers == {"AA", "UA"}
DefaultCarrier == "AA"  \* carriers[0].id, the dialog's default

Minutes == 0..MaxTime
Ends == Minutes \cup {NULL}
Ids == 1..MaxRows

VARIABLES
    db,         \* rows of aircraft_allocations
    nextId,     \* next id the table hands out
    dialog,     \* per client: the open AllocationDialog (mode, tail, id)
    cache,      \* per client: data of useAircraftAllocations(formData.tail_number)
    sub,        \* per client: the form as last submitted and what became of it
    del,        \* the last delete issued from a listing and how its mutation settled
    viewTime,   \* the map page's debounced view time, NULL before the page is loaded
    drawer,     \* the station whose StationDrawer is open, "" if none
    qc,         \* the page's query cache: per query key its data, flag and pending fetch
    feed,       \* change notifications of the realtime feed on their way to the page
    selectedTailNumber, \* the aircraft whose AircraftPanel is open, "" if none
    sliderTime, \* the page's view time before the hooks debounce it into viewTime
    airports,       \* per station: total_spots of its airports row
    editingStation, \* capacity page: the station whose capacity is being edited, "" if none
    editValue,      \* capacity page: the text of the capacity input
    nws             \* the running call of fetchWithRetry of the weather service

view == <<viewTime, drawer, qc, feed>>
\* the capacity page
capacity == <<airports, editingStation, editValue>>
\* what the table, the map, its drawer and its dialogs leave alone
\* the capacity page and the weather service
beyond == <<capacity, nws>>
elsewhere == <<beyond, selectedTailNumber, sliderTime>>
\* what the capacity page leaves alone
allocations == <<db, nextId, dialog, cache, sub, del, view, selectedTailNumber,
                 sliderTime>>
vars == <<db, nextId, dialog, cache, sub, del, viewTime, drawer, qc, feed,
          selectedTailNumber, sliderTime, airports, editingStation, editValue, nws>>

\* ------------------------------------------------------- rows and ranges
Row(id, tail, station, carrier, ps, pe) ==
    [id |-> id, tail_number |-> tail, station_iata |-> station,
     carrier_id |-> carrier, period_start |-> ps, period_end |-> pe]

\* tstzrange(lo, hi, '[)') raises "range lower bound must be less than or
\* equal to range upper bound" when hi < lo
RangeError(ps, pe) == pe # NULL /\ pe < ps

\* tstzrange(lo, lo, '[)') is the empty range
RangeEmpty(ps, pe) == pe # NULL /\ pe = ps

\* the ranges built with '[]' bounds: the upper bound belongs to the range
RangeOverlaps_closed(ps1, pe1, ps2, pe2) ==
    /\ (pe2 = NULL \/ ps1 <= pe2)
    /\ (pe1 = NULL \/ ps2 <= pe1)

\* anyrange && anyrange: the ranges have a point in common
RangeOverlaps(ps1, pe1, ps2, pe2) ==
    /\ ~RangeEmpty(ps1, pe1)
    /\ ~RangeEmpty(ps2, pe2)
    /\ (pe2 = NULL \/ ps1 < pe2)
    /\ (pe1 = NULL \/ ps2 < pe1)

\* the constraint as a comparison of bounds that is not true of NULL: rows
\* without a period_end never exclude
no_overlapping_periods_ended(rows, new) ==
    {r \in rows : /\ r.id # new.id
                  /\ r.tail_number = new.tail_number
                  /\ r.period_end # NULL /\ new.period_end # NULL
                  /\ RangeOverlaps(r.period_start, r.period_end,
                                   new.period_start, new.period_end)}

\* the constraint keyed on the station as well: an aircraft may not be twice
\* at one station, but may be at two
no_overlapping_periods_per_station(rows, new) ==
    {r \in rows : /\ r.id # new.id
                  /\ r.tail_number = new.tail_number
                  /\ r.station_iata = new.station_iata
                  /\ RangeOverlaps(r.period_start, r.period_end,
                                   new.period_start, new.period_end)}

\* the table before the migration, with UNIQUE (tail_number) still in place:
\* every other row of the aircraft excludes the new row
aircraft_allocations_tail_number_key(rows, new) ==
    {r \in rows : r.id # new.id /\ r.tail_number = new.tail_number}

\* EXCLUDE USING GIST (tail_number WITH =, tstzrange(...) WITH &&): the rows
\* of the table, other than the row itself, that exclude the new row version
no_overlapping_periods(rows, new) ==
    {r \in rows : /\ r.id # new.id
                  /\ r.tail_number = new.tail_number
                  /\ RangeOverlaps(r.period_start, r.period_end,
                                   new.period_start, new.period_end)}

\* ---------------------------------------------------- point-in-time queries
\* a minute as a view-time instant
Instant(m) == m * TicksPerMinute
ViewTimes == 0..(Instant(MaxTime) + TicksPerMinute - 1)

\* PostgREST filters on a timestamptz column (a comparison with NULL is not true)
lte(col, v) == col # NULL /\ Instant(col) <= v
gt(col, v) == col # NULL /\ Instant(col) > v

\* the filter with period_end.gte in place of period_end.gt
ActiveFilter_gte(r, timeISO) ==
    /\ lte(r.period_start, timeISO)
    /\ (r.period_end = NULL \/ Instant(r.period_end) >= timeISO)

\* .lte('period_start', timeISO).or(`period_end.is.null,period_end.gt.${timeISO}`)
ActiveFilter(r, timeISO) ==
    /\ lte(r.period_start, timeISO)
    /\ (r.period_end = NULL \/ gt(r.period_end, timeISO))

RECURSIVE Total(_, _)
\* let total = 0; carrierMap.forEach(({ count }) => { total += count })
Total(carrierMap, keys) ==
    IF keys = {} THEN 0
    ELSE LET k == CHOOSE x \in keys : TRUE
         IN  carrierMap[k] + Total(carrierMap, keys \ {k})

\* the summary without the view time: every allocation row is counted
useAllocationSummary_all(rows, timeISO) ==
    [a \in Stations |-> Cardinality({r \in rows : r.station_iata = a})]

\* queryFn of useAllocationSummary: total_count per airport at timeISO
useAllocationSummary(rows, timeISO) ==
    LET allocationList == {r \in rows : ActiveFilter(r, timeISO)}
        stationCarrierCounts ==
            [s \in {r.station_iata : r \in allocationList} |->
                [k \in {r.carrier_id : r \in {x \in allocationList : x.station_iata = s}} |->
                    Cardinality({r \in allocationList :
                                    r.station_iata = s /\ r.carrier_id = k})]]
    IN  [a \in Stations |->
            IF a \in DOMAIN stationCarrierCounts
            THEN Total(stationCarrierCounts[a], DOMAIN stationCarrierCounts[a])
            ELSE 0]

\* queryFn of useStationAllocations: the rows listed for a station at timeISO
useStationAllocations(rows, stationIata, timeISO) ==
    {r \in rows : r.station_iata = stationIata /\ ActiveFilter(r, timeISO)}

\* ------------------------------------------------------------ range query
TicksPerDay == MinutesPerDay * TicksPerMinute

\* DateTime.startOf('day') and DateTime.endOf('day') (the day's last instant)
startOf_day(t) == (t \div TicksPerDay) * TicksPerDay
endOf_day(t) == startOf_day(t) + TicksPerDay - 1

lt(col, v) == col # NULL /\ Instant(col) < v

\* tail numbers and tail filters as character sequences, lower-cased
Chars(str) ==
    CASE str = "N1" -> <<"n", "1">>
      [] str = "N2" -> <<"n", "2">>
      [] str = "n1" -> <<"n", "1">>
      [] str = "N"  -> <<"n">>
      [] OTHER      -> <<>>

\* col ILIKE '%pat%': pat occurs in col, letter case ignored
ilike(col, pat) ==
    LET c == Chars(col)
        q == Chars(pat)
    IN  \E i \in 0..(Len(c) - Len(q)) : SubSeq(c, i + 1, i + Len(q)) = q

NoFilters == [carrierIds |-> {}, stationIatas |-> {}, tailNumber |-> ""]

\* the range query asking for what is active at the window's start
useAllocationsInRange_active(rows, startDate, endDate, filters) ==
    {r \in rows : ActiveFilter(r, startOf_day(startDate))}

\* queryFn of useAllocationsInRange
useAllocationsInRange(rows, startDate, endDate, filters) ==
    LET startISO == startOf_day(startDate)
        endISO == endOf_day(endDate)
    IN  {r \in rows :
            /\ lt(r.period_start, endISO)
            /\ (r.period_end = NULL \/ gt(r.period_end, startISO))
            /\ (filters.carrierIds # {} => r.carrier_id \in filters.carrierIds)
            /\ (filters.stationIatas # {} => r.station_iata \in filters.stationIatas)
            /\ (filters.tailNumber # "" => ilike(r.tail_number, filters.tailNumber))}

\* queryFn of useAircraftAllocations and of the AircraftPanel: every
\* allocation of the aircraft
aircraft_periods(rows, tailNumber) == {r \in rows : r.tail_number = tailNumber}

RECURSIVE order_ascending(_)
\* the listings with the earliest period_start first
order_ascending(rows) ==
    IF rows = {} THEN {<<>>}
    ELSE UNION {{<<r>> \o s : s \in order_ascending(rows \ {r})} :
                   r \in {x \in rows : \A y \in rows : x.period_start <= y.period_start}}

RECURSIVE order(_)
\* .order('period_start', { ascending: false }): the listings the database
\* may return, the latest period_start first; rows with equal period_start
\* come in any order
order(rows) ==
    IF rows = {} THEN {<<>>}
    ELSE UNION {{<<r>> \o s : s \in order(rows \ {r})} :
                   r \in {x \in rows : \A y \in rows : x.period_start >= y.period_start}}

\* the listings useAircraftAllocations and the AircraftPanel may receive
aircraft_periods_ordered(rows, tailNumber) == order(aircraft_periods(rows, tailNumber))

\* the dialog's capacity check: stationAllocations at the form's period_start
currentCount(rows, effectiveStation, period_start) ==
    Cardinality(useStationAllocations(rows, effectiveStation, Instant(period_start)))

\* ------------------------------------------------- client-side validation
\* newStart < (existingEnd ?? DateTime.fromMillis(Number.MAX_SAFE_INTEGER)).
\* Luxon compares DateTimes by valueOf().  Number.MAX_SAFE_INTEGER (2^53 - 1,
\* about 9.007e15) lies beyond luxon's MAX_DATE (8.64e15), so fromMillis
\* returns an invalid DateTime whose valueOf() is NaN, and every comparison
\* with NaN is false.
StartBeforeEnd(newStart, existingEnd) ==
    IF existingEnd # NULL THEN newStart < existingEnd ELSE FALSE

\* const overlaps = newStart < (existingEnd ?? ...) &&
\*                  (newEnd === null || newEnd > existingStart)
overlaps(newStart, newEnd, alloc) ==
    /\ StartBeforeEnd(newStart, alloc.period_end)
    /\ (newEnd = NULL \/ newEnd > alloc.period_start)

\* the filter without the excludeId test
otherAllocations_all(tailNumber, existingAllocations, excludeId) ==
    {a \in existingAllocations : a.tail_number = tailNumber}

\* existingAllocations.filter(a => a.tail_number === tailNumber && a.id !== excludeId)
otherAllocations(tailNumber, existingAllocations, excludeId) ==
    {a \in existingAllocations : a.tail_number = tailNumber /\ a.id # excludeId}

\* existingAllocations: loaded = FALSE is `undefined` (query not answered yet)
useOverlapValidation(tailNumber, periodStart, periodEnd, existingAllocations, excludeId) ==
    IF ~existingAllocations.loaded
    THEN [hasOverlap |-> FALSE, conflicting |-> {}]
    ELSE LET hits == {a \in otherAllocations(tailNumber, existingAllocations.rows, excludeId) :
                         overlaps(periodStart, periodEnd, a)}
             \* the loop returns at the first hit of the list, which is ordered
             \* by period_start descending (rows with equal starts in any order)
             first == {a \in hits : \A b \in hits : b.period_start <= a.period_start}
         IN  [hasOverlap |-> hits # {}, conflicting |-> first]

\* ------------------------------------------------------------- query cache
\* the key without the view time (the summary query as it was before view times)
cacheKey_none(t) == 0

\* the key rounded to the day: debouncedTime.startOf('day')
cacheKey_day(t) == t \div TicksPerDay

\* debouncedTime.startOf('minute'): the minute a view time falls in
cacheKey(t) == t \div TicksPerMinute

SummaryKey(k) == <<"allocation-summary", k>>
StationKey(x, k) == <<"station-allocations", x, k>>
SummaryKeys == {SummaryKey(k) : k \in Minutes}
StationKeys(x) == {StationKey(x, k) : k \in Minutes}
AllStationKeys == UNION {StationKeys(x) : x \in Stations}
QueryKeys == SummaryKeys \cup AllStationKeys

\* no call of fetchWithRetry yet
NoCall == [pc |-> "idle", maxRetries |-> 0, attempt |-> 0, lastError |-> "",
           responses |-> <<>>, waits |-> <<>>]

\* a query that was never used: no data, no fetch
NoQuery == [data |-> {}, isInvalidated |-> FALSE, fetch |-> {}]

\* the queries of the cache
Exists(e) == e.data # {} \/ e.fetch # {}

\* queryFn of a key, run with the unrounded view time timeISO
queryFn(key, rows, timeISO) ==
    IF key[1] = "allocation-summary"
    THEN useAllocationSummary(rows, timeISO)
    ELSE useStationAllocations(rows, key[2], timeISO)

\* the keys observed by mounted hooks: useAllocationSummary(viewTime) of the
\* page and useStationAllocations(stationIata, viewTime) of the open drawer
Observed(vt, dr) ==
    IF vt = NULL THEN {}
    ELSE {SummaryKey(cacheKey(vt))}
         \cup (IF dr = "" THEN {} ELSE {StationKey(dr, cacheKey(vt))})

\* a request is made: the table answers from rows, the answer is on its way
Fetching(e, key, rows, timeISO) ==
    [e EXCEPT !.fetch = {[at |-> timeISO, value |-> queryFn(key, rows, timeISO)]}]

\* an observer mounts on a key: a fetch already running is joined; data that
\* is invalidated or older than the client's staleTime is refetched (the
\* QueryClient's defaults are set outside the hooks: fresh is either value)
Mounted(e, key, rows, timeISO, fresh) ==
    IF e.fetch # {} THEN e
    ELSE IF e.data # {} /\ ~e.isInvalidated /\ fresh THEN e
    ELSE Fetching(e, key, rows, timeISO)

\* invalidateQueries: every matching query is marked; an observed one is
\* refetched, which cancels a running fetch unless the query has no data yet
\* (an initial fetch is never cancelled, its promise is reused)
invalidateQueries(q, keys, rows, vt, dr) ==
    [key \in QueryKeys |->
        IF key \in keys /\ Exists(q[key])
        THEN LET e == [q[key] EXCEPT !.isInvalidated = TRUE]
             IN  IF key \notin Observed(vt, dr) THEN e
                 ELSE IF e.fetch # {} /\ e.data = {} THEN e
                 ELSE Fetching(e, key, rows, vt)
        ELSE q[key]]

\* a committed change of a row at station x of aircraft t is announced on the
\* realtime channels; the page has channels only once it is loaded
notify(f, changed, vt) ==
    IF vt = NULL THEN f
    ELSE f \cup {[station_iata |-> r.station_iata, tail_number |-> r.tail_number] : r \in changed}

\* the client whose page (map, drawer, query cache) is modelled
Viewer == 1

\* ------------------------------------------------------------ client state
NoDialog == [mode |-> "closed", tail_number |-> "", station_iata |-> "", id |-> NoId]
\* the query cache entry ['aircraft-periods', key]
NotLoaded(key) == [key |-> key, loaded |-> FALSE, rows |-> {}]
NoSub == [op |-> "none", id |-> NoId, tail_number |-> "", station_iata |-> "",
          carrier_id |-> "", period_start |-> 0, period_end |-> NULL, status |-> "none",
          error |-> "none", conflict |-> NoId]
\* no delete issued yet
NoDel == [id |-> NoId, status |-> "none"]

Init ==
    /\ db = {}
    /\ nextId = 1
    /\ dialog = [c \in Clients |-> NoDialog]
    /\ cache = [c \in Clients |-> NotLoaded("")]
    /\ sub = [c \in Clients |-> NoSub]
    /\ del = NoDel
    /\ viewTime = NULL
    /\ drawer = ""
    /\ qc = [key \in QueryKeys |-> NoQuery]
    /\ feed = {}
    /\ selectedTailNumber = ""
    /\ sliderTime = NULL
    /\ airports = [a \in Stations |-> {}]
    /\ editingStation = ""
    /\ editValue = <<>>
    /\ nws = NoCall

\* inserts that passed validate() and are awaited
InflightInserts == {c \in Clients : sub[c].status = "inflight" /\ sub[c].op = "insert"}

\* useQuery on mount: data cached under the same key is served at once (and is
\* refetched by useAircraftAllocations below), another key starts undefined
Mount(c, tail) ==
    cache' = [cache EXCEPT ![c] = IF cache[c].key = tail THEN cache[c] ELSE NotLoaded(tail)]

\* the dialog is mounted to add an allocation (prefillTailNumber or typed tail)
OpenCreate(c, tail, station) ==
    /\ dialog[c].mode = "closed"
    /\ dialog' = [dialog EXCEPT ![c] = [mode |-> "create", tail_number |-> tail,
                                        station_iata |-> station, id |-> NoId]]
    /\ Mount(c, tail)
    /\ sub' = [sub EXCEPT ![c] = NoSub]
    /\ UNCHANGED <<db, nextId, del, view, elsewhere>>

\* the dialog is mounted to edit a listed allocation (effectiveAllocation)
OpenEdit(c, r) ==
    /\ dialog[c].mode = "closed"
    /\ r \in db
    /\ dialog' = [dialog EXCEPT ![c] = [mode |-> "edit", tail_number |-> r.tail_number,
                                        station_iata |-> r.station_iata, id |-> r.id]]
    /\ Mount(c, r.tail_number)
    /\ sub' = [sub EXCEPT ![c] = NoSub]
    /\ UNCHANGED <<db, nextId, del, view, elsewhere>>

\* the dialog is mounted with allocationId (Edit Period of the aircraft
\* panel): until the query ['allocation', allocationId] is answered
\* effectiveAllocation is null, so isEditing is false, the form is empty and
\* needsStationSelection holds
OpenEditById(c, allocationId) ==
    /\ dialog[c].mode = "closed"
    /\ allocationId < nextId
    /\ dialog' = [dialog EXCEPT ![c] = [mode |-> "byId", tail_number |-> "",
                                        station_iata |-> "", id |-> allocationId]]
    /\ Mount(c, "")
    /\ sub' = [sub EXCEPT ![c] = NoSub]
    /\ UNCHANGED <<db, nextId, del, view, elsewhere>>

\* the query ['allocation', allocationId] is answered with the row (.single()
\* fails if the row is gone): the effect copies it into the form and
\* isEditing becomes true
loadedAllocation(c) ==
    /\ dialog[c].mode = "byId"
    /\ sub[c].status # "inflight"
    /\ \E r \in db :
          /\ r.id = dialog[c].id
          /\ dialog' = [dialog EXCEPT ![c] = [mode |-> "edit", tail_number |-> r.tail_number,
                                              station_iata |-> r.station_iata, id |-> r.id]]
          /\ Mount(c, r.tail_number)
    /\ UNCHANGED <<db, nextId, sub, del, view, elsewhere>>

\* the user fills the tail number and picks the station while the form is
\* not (yet) an edit form
setFormData(c, tail, station) ==
    /\ dialog[c].mode = "byId"
    /\ sub[c].status # "inflight"
    /\ dialog' = [dialog EXCEPT ![c].tail_number = tail, ![c].station_iata = station]
    /\ Mount(c, tail)
    /\ UNCHANGED <<db, nextId, sub, del, view, elsewhere>>

\* onClose by Cancel / backdrop
CloseDialog(c) ==
    /\ dialog[c].mode # "closed"
    /\ sub[c].status # "inflight"
    /\ dialog' = [dialog EXCEPT ![c] = NoDialog]
    /\ sub' = [sub EXCEPT ![c] = NoSub]
    /\ UNCHANGED <<db, nextId, cache, del, view, elsewhere>>

\* queryFn of useAircraftAllocations(formData.tail_number): first load, and
\* every refetch after the realtime channel invalidated the query.  A refetch
\* is taken before the form is submitted, so that while sub[c] shows a
\* submitted form, cache[c] is the list that form was validated against.
useAircraftAllocations(c) ==
    /\ dialog[c].mode # "closed"
    /\ dialog[c].tail_number # ""               \* enabled: !!tailNumber
    /\ sub[c].status \in {"none", "client_overlap"}
    /\ cache' = [cache EXCEPT ![c] =
                    [key |-> dialog[c].tail_number, loaded |-> TRUE,
                     rows |-> aircraft_periods(db, dialog[c].tail_number)]]
    /\ UNCHANGED <<db, nextId, dialog, sub, del, view, elsewhere>>

\* the submit button that is never disabled
isSubmitting_never(c) == FALSE

\* isSubmitting: set before the mutation is awaited, reset in the finally;
\* the submit button is disabled={isSubmitting}
isSubmitting(c) == sub[c].status = "inflight"

\* handleSubmit up to its await: validate(), then the mutation is issued
handleSubmit(c, carrier, ps, pe) ==
    /\ dialog[c].mode # "closed"
    /\ ~isSubmitting(c)
    /\ dialog[c].mode # "edit" => nextId + Cardinality(InflightInserts) <= MaxRows
    \* validate(): 'Tail number is required', 'Station is required'
    /\ dialog[c].tail_number # "" /\ dialog[c].station_iata # ""
    /\ LET isEditing == dialog[c].mode = "edit"
           overlapCheck == useOverlapValidation(dialog[c].tail_number, ps, pe, cache[c],
                                                dialog[c].id)
           req == [op |-> IF isEditing THEN "update" ELSE "insert",
                   id |-> dialog[c].id,
                   tail_number |-> dialog[c].tail_number,
                   station_iata |-> dialog[c].station_iata,
                   carrier_id |-> carrier,
                   period_start |-> ps, period_end |-> pe,
                   status |-> "inflight", error |-> "none", conflict |-> NoId]
       IN  IF overlapCheck.hasOverlap
           THEN \* newErrors.period_start = overlapCheck.message: the message
                \* names the station and the period of conflictingAllocation
                \E a \in overlapCheck.conflicting :
                    sub' = [sub EXCEPT ![c] = [req EXCEPT !.status = "client_overlap",
                                                          !.error = "overlaps_with",
                                                          !.conflict = a.id]]
           ELSE sub' = [sub EXCEPT ![c] = req]
    /\ UNCHANGED <<db, nextId, dialog, cache, del, view, elsewhere>>

\* what the table does with a new row version: the range is built first, then
\* the exclusion constraint is checked
Verdict(rows, new) ==
    IF RangeError(new.period_start, new.period_end) THEN "db_range"
    ELSE IF no_overlapping_periods(rows, new) # {} THEN "db_overlap"
    ELSE "ok"

\* the catch of handleSubmit: what setErrors shows for a rejected write.  The
\* mutation throws the error object of the Supabase response; the catch shows
\* something only if (error instanceof Error), which depends on the client
\* library handing out Error instances or plain objects (isError).
Shown(status, isError) ==
    IF status = "ok" \/ ~isError THEN "none"
    ELSE IF status = "db_overlap" THEN "overlaps_with_another"   \* fixed text
    ELSE "submit"                                                \* error.message

\* handleSubmit after its await: onClose() on success, setErrors in the catch
Finish(c, status, isError) ==
    /\ sub' = [sub EXCEPT ![c].status = status, ![c].error = Shown(status, isError)]
    /\ dialog' = IF status = "ok" THEN [dialog EXCEPT ![c] = NoDialog] ELSE dialog
    /\ UNCHANGED <<cache, del, elsewhere>>

\* a write of client c has settled at the table: rows `changed` were written
\* or removed (none if it was rejected) leaving the table as `after`; the
\* change is announced on the feed, and onSuccess of a write issued from the
\* modelled page invalidates `keys`
Settled(c, changed, after, keys) ==
    /\ feed' = notify(feed, changed, viewTime)
    /\ qc' = IF c = Viewer THEN invalidateQueries(qc, keys, after, viewTime, drawer) ELSE qc
    /\ UNCHANGED <<viewTime, drawer>>

\* the row a submitted form asks the table to insert
NewRow(id, f) ==
    Row(id, f.tail_number, f.station_iata, f.carrier_id, f.period_start, f.period_end)

\* mutationFn of useCreateAllocation: insert(...).select().single()
useCreateAllocation(c, isError) ==
    /\ sub[c].status = "inflight"
    /\ sub[c].op = "insert"
    /\ LET new == NewRow(nextId, sub[c])
           v == Verdict(db, new)
           after == IF v = "ok" THEN db \cup {new} ELSE db
       IN  /\ db' = after
           /\ nextId' = IF v = "ok" THEN nextId + 1 ELSE nextId
           /\ Finish(c, v, isError)
           \* onSuccess: ['allocation-summary'] and ['station-allocations', station]
           /\ Settled(c, after \ db, after,
                       IF v = "ok" THEN SummaryKeys \cup StationKeys(new.station_iata) ELSE {})

\* the row version a submitted form asks the table to write over row o
NewVersion(o, f) ==
    [o EXCEPT !.tail_number = f.tail_number, !.carrier_id = f.carrier_id,
              !.period_start = f.period_start, !.period_end = f.period_end]

\* the update as an upsert: a missing row is written anew
useUpdateAllocation_upsert(c, isError) ==
    /\ sub[c].status = "inflight"
    /\ sub[c].op = "update"
    /\ LET old == {r \in db : r.id = sub[c].id}
           new == NewRow(sub[c].id, sub[c])
           v == Verdict(db, new)
           after == IF v = "ok" THEN (db \ old) \cup {new} ELSE db
       IN  /\ db' = after
           /\ UNCHANGED nextId
           /\ Finish(c, v, isError)
           /\ Settled(c, after \ db, after,
                       IF v = "ok" THEN SummaryKeys \cup StationKeys(dialog[c].station_iata) ELSE {})

\* mutationFn of useUpdateAllocation: update(data).eq('id', id).select().single()
useUpdateAllocation(c, isError) ==
    /\ sub[c].status = "inflight"
    /\ sub[c].op = "update"
    /\ LET old == {r \in db : r.id = sub[c].id}
       IN  IF old = {}
           THEN /\ UNCHANGED <<db, nextId, view>>
                /\ Finish(c, "not_found", isError)
           ELSE LET o == CHOOSE r \in old : TRUE
                    new == NewVersion(o, sub[c])
                    v == Verdict(db, new)
                    after == IF v = "ok" THEN (db \ old) \cup {new} ELSE db
                IN  /\ db' = after
                    /\ UNCHANGED nextId
                    /\ Finish(c, v, isError)
                    \* onSuccess: ['allocation-summary'] and
                    \* ['station-allocations', stationIata], the hook's station
                    /\ Settled(c, after \ db, after,
                                IF v = "ok"
                                THEN SummaryKeys \cup StationKeys(dialog[c].station_iata)
                                ELSE {})

\* handleDelete of a listing (StationDrawer, AircraftPanel) on the row it
\* shows as id, confirmed by the user: the delete mutation is issued.  The
\* listing may be out of date, so the row may be gone already.
handleDelete(id) ==
    /\ id < nextId
    /\ del.status # "inflight"
    /\ del' = [id |-> id, status |-> "inflight"]
    /\ UNCHANGED <<db, nextId, dialog, cache, sub, view, elsewhere>>

\* the mutation deleting every allocation of the aircraft of the row
useDeleteAllocation_cascade ==
    /\ del.status = "inflight"
    /\ LET after == {r \in db : \A x \in db : x.id = del.id => r.tail_number # x.tail_number}
       IN  /\ db' = after
           /\ Settled(Viewer, db \ after, after,
                       SummaryKeys \cup (IF drawer # "" THEN StationKeys(drawer) ELSE AllStationKeys))
    /\ del' = [del EXCEPT !.status = "success"]
    /\ UNCHANGED <<nextId, dialog, cache, sub, elsewhere>>

\* mutationFn of useDeleteAllocation: delete().eq('id', id); the response
\* carries an error only if the statement failed, and a DELETE that matches
\* no row does not fail
useDeleteAllocation ==
    /\ del.status = "inflight"
    /\ LET after == {r \in db : r.id # del.id}
       IN  /\ db' = after
           \* onSuccess: ['allocation-summary'], ['allocations-range'] (a
           \* listing no component mounts) and ['station-allocations',
           \* stationIata] of the drawer, or of every station without one
           /\ Settled(Viewer, db \ after, after,
                       SummaryKeys \cup (IF drawer # "" THEN StationKeys(drawer) ELSE AllStationKeys))
    /\ del' = [del EXCEPT !.status = "success"]
    /\ UNCHANGED <<nextId, dialog, cache, sub, elsewhere>>

\* another user's delete reaches the table
OtherDelete(id) ==
    /\ id < nextId
    /\ db' = {r \in db : r.id # id}
    /\ feed' = notify(feed, {r \in db : r.id = id}, viewTime)
    /\ UNCHANGED <<nextId, dialog, cache, sub, del, viewTime, drawer, qc, elsewhere>>

\* another user's insert reaches the table (their dialog is not tracked: with
\* its list not loaded yet, validate() lets every form through)
OtherInsert(tail, station, carrier, ps, pe) ==
    /\ nextId + Cardinality(InflightInserts) <= MaxRows
    /\ LET new == Row(nextId, tail, station, carrier, ps, pe)
       IN  /\ Verdict(db, new) = "ok"
           /\ db' = db \cup {new}
           /\ nextId' = nextId + 1
           /\ feed' = notify(feed, {new}, viewTime)
    /\ UNCHANGED <<dialog, cache, sub, del, viewTime, drawer, qc, elsewhere>>

\* another user's update reaches the table
OtherUpdate(o, carrier, ps, pe) ==
    /\ o \in db
    /\ LET new == [o EXCEPT !.carrier_id = carrier, !.period_start = ps, !.period_end = pe]
       IN  /\ Verdict(db, new) = "ok"
           /\ db' = (db \ {o}) \cup {new}
           /\ feed' = notify(feed, {new} \ {o}, viewTime)
    /\ UNCHANGED <<nextId, dialog, cache, sub, del, viewTime, drawer, qc, elsewhere>>

\* ---------------------------------------------------------------- the page
\* the map page is loaded: viewTime starts as DateTime.now(), the summary
\* hook mounts and subscribes to the feed
Home(now) ==
    /\ viewTime = NULL
    /\ viewTime' = now
    /\ sliderTime' = now
    /\ qc' = [qc EXCEPT ![SummaryKey(cacheKey(now))] =
                  Mounted(@, SummaryKey(cacheKey(now)), db, now, FALSE)]
    /\ UNCHANGED <<db, nextId, dialog, cache, sub, del, drawer, feed, beyond,
                   selectedTailNumber>>

\* the hooks rerender with the keys of (vt, dr): observers move to the keys
\* they did not observe before; `fresh` are the keys whose data is younger
\* than the client's staleTime
Rerender(vt, dr, fresh) ==
    qc' = [key \in QueryKeys |->
              IF key \in Observed(vt, dr) \ Observed(viewTime, drawer)
              THEN Mounted(qc[key], key, db, vt, key \in fresh)
              ELSE qc[key]]

\* the debounced view time of the hooks becomes t
Debounced(t) ==
    /\ viewTime # NULL
    /\ t # viewTime
    /\ viewTime' = t
    /\ \E fresh \in SUBSET Observed(t, drawer) : Rerender(t, drawer, fresh)
    /\ UNCHANGED <<db, nextId, dialog, cache, sub, del, drawer, feed, beyond,
                   selectedTailNumber>>

\* the timeline is scrubbed and the debounced view time follows
setViewTime(t) ==
    /\ sliderTime' = t
    /\ Debounced(t)

\* the timeline is scrubbed; the hooks restart their timers
onViewTimeChange(t) ==
    /\ sliderTime # NULL
    /\ t # sliderTime
    /\ sliderTime' = t
    /\ UNCHANGED <<db, nextId, dialog, cache, sub, del, view, beyond,
                   selectedTailNumber>>

\* useDebouncedValue: the view time has been left alone for `delay` and the
\* timers fire (the hooks' timers, started by the same render with the same
\* delay, fire together)
useDebouncedValue ==
    /\ sliderTime # NULL
    /\ Debounced(sliderTime)
    /\ UNCHANGED sliderTime

\* a station is clicked on the map: its StationDrawer opens and the aircraft
\* panel closes (handleStationClick, x # ""), or the open drawer is closed
\* (handleCloseDrawer, x = "")
setSelectedStation(x) ==
    /\ viewTime # NULL
    /\ x # drawer
    /\ drawer' = x
    /\ selectedTailNumber' = IF x # "" THEN "" ELSE selectedTailNumber
    /\ \E fresh \in SUBSET Observed(viewTime, x) : Rerender(viewTime, x, fresh)
    /\ UNCHANGED <<db, nextId, dialog, cache, sub, del, viewTime, feed, beyond,
                   sliderTime>>

\* an aircraft listed in the open drawer is clicked: its AircraftPanel opens,
\* the drawer closes.  The panel's query ['aircraft-periods', tailNumber]
\* mounts: data of that key younger than the staleTime is kept (fresh),
\* otherwise the history is fetched
handleAircraftClick(tailNumber) ==
    /\ viewTime # NULL /\ drawer # ""
    /\ \E d \in qc[StationKey(drawer, cacheKey(viewTime))].data :
          \E r \in d.value : r.tail_number = tailNumber
    /\ selectedTailNumber' = tailNumber
    /\ drawer' = ""
    /\ Rerender(viewTime, "", {})
    /\ \E fresh \in BOOLEAN :
          cache' = [cache EXCEPT ![Viewer] =
                       IF @.key = tailNumber /\ @.loaded /\ fresh THEN @
                       ELSE [key |-> tailNumber, loaded |-> TRUE,
                             rows |-> aircraft_periods(db, tailNumber)]]
    /\ UNCHANGED <<db, nextId, dialog, sub, del, viewTime, feed, beyond, sliderTime>>

\* the panel is closed
handleCloseAircraftPanel ==
    /\ selectedTailNumber # ""
    /\ selectedTailNumber' = ""
    /\ UNCHANGED <<db, nextId, dialog, cache, sub, del, view, beyond, sliderTime>>

\* "Add Period" of the panel: the dialog opens with prefillTailNumber and
\* without a station, which the user selects
handleAddPeriod(tailNumber, station) ==
    /\ selectedTailNumber = tailNumber
    /\ OpenCreate(Viewer, tailNumber, station)

\* the answer to the pending fetch of a query arrives
onFetched(key) ==
    /\ qc[key].fetch # {}
    /\ qc' = [qc EXCEPT ![key] = [data |-> qc[key].fetch, isInvalidated |-> FALSE,
                                  fetch |-> {}]]
    /\ UNCHANGED <<db, nextId, dialog, cache, sub, del, viewTime, drawer, feed, elsewhere>>

\* refetchInterval: 60000 on an observed query (a running fetch is joined)
refetchInterval(key) ==
    /\ key \in Observed(viewTime, drawer)
    /\ qc[key].fetch = {}
    /\ qc' = [qc EXCEPT ![key] = Fetching(@, key, db, viewTime)]
    /\ UNCHANGED <<db, nextId, dialog, cache, sub, del, viewTime, drawer, feed, elsewhere>>

\* a change notification reaches the page; each mounted hook's channel
\* handler runs: 'allocation-changes' (summary, every event),
\* `station-${stationIata}` (the drawer's station, events of that station),
\* `aircraft-${tailNumber}` (the open dialog's aircraft, events of that
\* aircraft: ['aircraft-periods', tailNumber], which the dialog observes and
\* so is refetched, summary and every station query) and the dialog's own
\* `station-${stationIata}`
postgres_changes(e) ==
    /\ e \in feed
    /\ feed' = feed \ {e}
    /\ LET ofDrawer == IF drawer # "" /\ e.station_iata = drawer
                       THEN StationKeys(drawer) ELSE {}
           ofDialog == IF dialog[Viewer].mode = "closed" THEN {}
                       ELSE (IF e.tail_number = dialog[Viewer].tail_number
                             THEN AllStationKeys ELSE {})
                            \cup (IF e.station_iata = dialog[Viewer].station_iata
                                  THEN StationKeys(e.station_iata) ELSE {})
       IN  qc' = invalidateQueries(qc, SummaryKeys \cup ofDrawer \cup ofDialog,
                                   db, viewTime, drawer)
    /\ cache' = IF /\ dialog[Viewer].mode # "closed"
                   /\ dialog[Viewer].tail_number # ""
                   /\ e.tail_number = dialog[Viewer].tail_number
                THEN [cache EXCEPT ![Viewer] =
                         [key |-> e.tail_number, loaded |-> TRUE,
                          rows |-> aircraft_periods(db, e.tail_number)]]
                ELSE cache
    /\ UNCHANGED <<db, nextId, dialog, sub, del, viewTime, drawer, elsewhere>>

\* the station each aircraft is allocated to in Spec and SpecRace (stations
\* play no part in the overlap rules; SpecStore draws them freely)
Parked(tail) == IF tail = "N1" THEN "DFW" ELSE "CLT"

\* ------------------------------------------------------------------ Spec
\* one tracked dialog (client 1) among other users creating and deleting
Next ==
    \/ \E t \in Tails : OpenCreate(1, t, Parked(t))
    \/ \E r \in db : OpenEdit(1, r)
    \/ CloseDialog(1)
    \/ useAircraftAllocations(1)
    \/ \E ps \in Minutes, pe \in Ends : handleSubmit(1, DefaultCarrier, ps, pe)
    \/ \E isError \in BOOLEAN : useCreateAllocation(1, isError)
    \/ \E isError \in BOOLEAN : useUpdateAllocation(1, isError)
    \/ \E id \in Ids : OtherDelete(id)
    \/ \E t \in Tails, ps \in Minutes, pe \in Ends :
          OtherInsert(t, Parked(t), DefaultCarrier, ps, pe)

Spec == Init /\ [][Next]_vars

\* ------------------------------------------------------------- SpecRace
\* two tracked dialogs creating allocations concurrently, and other users
NextRace ==
    \/ \E c \in Clients, t \in Tails : OpenCreate(c, t, Parked(t))
    \/ \E c \in Clients : CloseDialog(c)
    \/ \E c \in Clients : useAircraftAllocations(c)
    \/ \E c \in Clients, ps \in Minutes, pe \in Ends : handleSubmit(c, DefaultCarrier, ps, pe)
    \/ \E c \in Clients, isError \in BOOLEAN : useCreateAllocation(c, isError)
    \/ \E t \in Tails, ps \in Minutes, pe \in Ends :
          OtherInsert(t, Parked(t), DefaultCarrier, ps, pe)

SpecRace == Init /\ [][NextRace]_vars

\* ------------------------------------------------------------ SpecStore
\* the table alone: every insert, update and delete that reaches it, with
\* stations and carriers drawn freely
NextStore ==
    \/ \E t \in Tails, s \in Stations, k \in Carriers, ps \in Minutes, pe \in Ends :
          OtherInsert(t, s, k, ps, pe)
    \/ \E o \in db, k \in Carriers, ps \in Minutes, pe \in Ends : OtherUpdate(o, k, ps, pe)
    \/ \E id \in Ids : handleDelete(id)
    \/ useDeleteAllocation
    \/ \E id \in Ids : OtherDelete(id)

SpecStore == Init /\ [][NextStore]_vars

\* ------------------------------------------------------------- SpecView
\* the map page of one client: its view time, drawer and query cache, while
\* aircraft N1 is allocated at DFW by this client and by others
\* view times the timeline is scrubbed over: the instants of the first minute
\* and the first instant of the next
Scrub == {0, TicksPerMinute}

NextView ==
    \/ \E now \in Scrub : Home(now)
    \/ \E t \in Scrub : setViewTime(t)
    \/ \E x \in {"", "DFW"} : setSelectedStation(x)
    \/ \E key \in QueryKeys : onFetched(key)
    \/ \E key \in QueryKeys : refetchInterval(key)
    \/ \E e \in feed : postgres_changes(e)
    \/ OtherInsert("N1", "DFW", DefaultCarrier, 0, NULL)

SpecView == Init /\ [][NextView]_vars

\* ----------------------------------------------------------- SpecCreate
\* the same page while its own user creates allocations of N1 at DFW
NextCreate ==
    \/ \E now \in Scrub : Home(now)
    \/ \E t \in Scrub : setViewTime(t)
    \/ \E x \in {"", "DFW"} : setSelectedStation(x)
    \/ \E key \in QueryKeys : onFetched(key)
    \/ \E key \in QueryKeys : refetchInterval(key)
    \/ \E e \in feed : postgres_changes(e)
    \/ OpenCreate(Viewer, "N1", "DFW")
    \/ handleSubmit(Viewer, DefaultCarrier, 0, NULL)
    \/ \E isError \in BOOLEAN : useCreateAllocation(Viewer, isError)

SpecCreate == Init /\ [][NextCreate]_vars

\* ------------------------------------------------------------- SpecEdit
\* Edit Period: the dialog is opened with the id of an allocation of N1 at
\* DFW listed in the aircraft panel, while others insert and delete
NextEdit ==
    \/ \E id \in Ids : OpenEditById(Viewer, id)
    \/ loadedAllocation(Viewer)
    \/ setFormData(Viewer, "N1", "DFW")
    \/ CloseDialog(Viewer)
    \/ useAircraftAllocations(Viewer)
    \/ \E ps \in Minutes, pe \in Ends : handleSubmit(Viewer, DefaultCarrier, ps, pe)
    \/ \E isError \in BOOLEAN : useCreateAllocation(Viewer, isError)
    \/ \E isError \in BOOLEAN : useUpdateAllocation(Viewer, isError)
    \/ \E ps \in Minutes, pe \in Ends : OtherInsert("N1", "DFW", DefaultCarrier, ps, pe)
    \/ \E id \in Ids : OtherDelete(id)

SpecEdit == Init /\ [][NextEdit]_vars

\* ------------------------------------------------------------ SpecPanel
\* the aircraft panel of N1, opened from the drawer of DFW, and the Add
\* Period dialog opened from it, after another user allocated N1 at DFW
NextPanel ==
    \/ Home(0)
    \/ setSelectedStation("DFW")
    \/ \E key \in QueryKeys : onFetched(key)
    \/ \E e \in feed : postgres_changes(e)
    \/ handleAircraftClick("N1")
    \/ handleCloseAircraftPanel
    \/ handleAddPeriod("N1", "DFW")
    \/ CloseDialog(Viewer)
    \/ useAircraftAllocations(Viewer)
    \/ \E ps \in Minutes, pe \in Ends : handleSubmit(Viewer, DefaultCarrier, ps, pe)
    \/ \E isError \in BOOLEAN : useCreateAllocation(Viewer, isError)
    \/ OtherInsert("N1", "DFW", DefaultCarrier, 0, 1)

SpecPanel == Init /\ [][NextPanel]_vars

\* ----------------------------------------------------------- SpecMinute
\* the page while the timeline is scrubbed over the instants of the first
\* minute and the first instant of the next, and another user allocates N1
\* at DFW from minute 1 on
Instants == 0..TicksPerMinute

NextMinute ==
    \/ Home(0)
    \/ \E t \in Instants : onViewTimeChange(t)
    \/ useDebouncedValue
    \/ setSelectedStation("DFW")
    \/ \E key \in QueryKeys : onFetched(key)
    \/ \E e \in feed : postgres_changes(e)
    \/ OtherInsert("N1", "DFW", DefaultCarrier, 1, NULL)

SpecMinute == Init /\ [][NextMinute]_vars

\* the timers of the hooks fire and the requests of the page are answered
SpecMinuteFair ==
    /\ SpecMinute
    /\ WF_vars(useDebouncedValue)
    /\ \A key \in QueryKeys : WF_vars(onFetched(key))

\* -------------------------------------------------------- capacity page
\* texts as sequences of characters
Digit == {"0", "1", "2", "5"}
DigitValue(ch) == CASE ch = "0" -> 0 [] ch = "1" -> 1 [] ch = "2" -> 2 [] ch = "5" -> 5

RECURSIVE trimStart(_)
trimStart(str) == IF str # <<>> /\ Head(str) = " " THEN trimStart(Tail(str)) ELSE str

RECURSIVE trimEnd(_)
trimEnd(str) ==
    IF str # <<>> /\ str[Len(str)] = " " THEN trimEnd(SubSeq(str, 1, Len(str) - 1)) ELSE str

\* String.prototype.trim
trim(str) == trimEnd(trimStart(str))

RECURSIVE DigitPrefix(_)
\* the longest prefix of str made of digits
DigitPrefix(str) ==
    IF str # <<>> /\ Head(str) \in Digit THEN <<Head(str)>> \o DigitPrefix(Tail(str)) ELSE <<>>

RECURSIVE MathInt(_, _)
\* the value of a sequence of digits, acc being the value of those read
MathInt(digits, acc) ==
    IF digits = <<>> THEN acc ELSE MathInt(Tail(digits), acc * 10 + DigitValue(Head(digits)))

\* parseInt(value, 10): leading white space is skipped, a sign is read, then
\* the digits up to the first character that is not one; NaN if there is no
\* digit; the sign is kept on a zero (-0)
parseInt(str) ==
    LET S == trimStart(str)
        sign == IF S # <<>> /\ Head(S) = "-" THEN -1 ELSE 1
        R == IF S # <<>> /\ Head(S) \in {"-", "+"} THEN Tail(S) ELSE S
        Z == DigitPrefix(R)
    IN  IF Z = <<>> THEN [nan |-> TRUE, sign |-> 1, mag |-> 0]
        ELSE [nan |-> FALSE, sign |-> sign, mag |-> MathInt(Z, 0)]

\* totalSpots < 0 (NaN and -0 are not)
lt0(n) == ~n.nan /\ n.sign = -1 /\ n.mag > 0

\* total_spots of an airports row: {} is NULL (unlimited), {n} the integer n
null == {}

\* CONSTRAINT check_total_spots_non_negative
\*     CHECK (total_spots IS NULL OR total_spots >= 0)
check_total_spots_non_negative(total_spots) ==
    total_spots = null \/ \A n \in total_spots : n >= 0

\* .from('airports').update({ total_spots }).eq('iata_code', iataCode)
updateCapacity(rows, iataCode, totalSpots) ==
    IF check_total_spots_non_negative(totalSpots)
    THEN [rows EXCEPT ![iataCode] = totalSpots]
    ELSE rows

\* texts the capacity input is given
EditValues ==
    {<<>>, <<"2">>, <<"0">>, <<"-", "1">>, <<"-", "0", ".", "5">>, <<"1", ".", "5">>,
     <<".", "5">>}

\* Number.prototype.toString of a stored capacity (one digit in the model)
toString(n) == <<CHOOSE ch \in Digit : DigitValue(ch) = n>>

\* the pencil of a row: the input shows the stored value
handleEdit(iataCode) ==
    /\ editingStation' = iataCode
    /\ editValue' = IF airports[iataCode] = null THEN <<>>
                    ELSE toString(CHOOSE n \in airports[iataCode] : TRUE)
    /\ UNCHANGED <<allocations, nws, airports>>

\* onChange of the input
setEditValue(str) ==
    /\ editingStation # ""
    /\ editValue' = str
    /\ UNCHANGED <<allocations, nws, airports, editingStation>>

\* Save (or Enter): the text is checked, then the capacity is written;
\* onSuccess leaves the editing mode
handleSave(iataCode) ==
    /\ editingStation = iataCode
    /\ LET value == trim(editValue)
           totalSpots == parseInt(value)
       IN  IF value # <<>> /\ (totalSpots.nan \/ lt0(totalSpots))
           THEN \* alert(...); return
                UNCHANGED <<airports, editingStation>>
           ELSE \* JSON carries -0 as 0
                LET body == IF value = <<>> THEN null ELSE {totalSpots.mag}
                IN  /\ airports' = updateCapacity(airports, iataCode, body)
                    /\ editingStation' = IF check_total_spots_non_negative(body)
                                         THEN "" ELSE editingStation
    /\ UNCHANGED <<allocations, nws, editValue>>

handleCancel ==
    /\ editingStation # ""
    /\ editingStation' = ""
    /\ editValue' = <<>>
    /\ UNCHANGED <<allocations, nws, airports>>

\* total_spots written by something other than the capacity page
OtherCapacity(iataCode, totalSpots) ==
    /\ airports' = updateCapacity(airports, iataCode, totalSpots)
    /\ airports' # airports
    /\ UNCHANGED <<allocations, nws, editingStation, editValue>>

\* --------------------------------------------------------- SpecCapacity
NextCapacity ==
    \/ \E a \in Stations : handleEdit(a)
    \/ \E str \in EditValues : setEditValue(str)
    \/ \E a \in Stations : handleSave(a)
    \/ handleCancel
    \/ \E a \in Stations, n \in {-1, 0, 5} : OtherCapacity(a, {n})

SpecCapacity == Init /\ [][NextCapacity]_vars

\* ------------------------------------------------------ weather service
\* maxRetries = 3, baseDelay = 1000
DefaultMaxRetries == 3
baseDelay == 1000

\* what a request can come to: an HTTP status whose body parses, a status 200
\* whose body does not (response.json() rejects), or no response (fetch rejects)
Responses == {"200", "200 no json", "404", "500", "503", "400", "failed"}

\* the try block: the message of the error thrown for a response, "" if the
\* parsed body is returned
Thrown(response) ==
    IF response = "404" THEN "Location outside NWS coverage area"
    ELSE IF response \in {"500", "503"} THEN "NWS service unavailable"
    ELSE IF response = "400" THEN "NWS API error"        \* !response.ok
    ELSE IF response = "200 no json" THEN "Unexpected token"
    ELSE IF response = "failed" THEN "fetch failed"
    ELSE ""

\* lastError.message.includes('outside NWS coverage')
includes_outside_NWS_coverage(message) == message = "Location outside NWS coverage area"

\* the backoff that is also taken after the last attempt
backoff_always(attempt, maxRetries) == TRUE

\* if (attempt < maxRetries - 1): a backoff follows the failed attempt
backoff(attempt, maxRetries) == attempt < maxRetries - 1

\* baseDelay * Math.pow(2, attempt)
delay(attempt) == baseDelay * 2^attempt

\* fetchWithRetry(url, maxRetries) is called: the loop is entered and the
\* first request is made, or with no attempt to make the final throw is reached
fetchWithRetry(maxRetries) ==
    /\ nws.pc \in {"idle", "returned", "thrown"}
    /\ nws' = [NoCall EXCEPT !.maxRetries = maxRetries,
                             !.pc = IF 0 < maxRetries THEN "fetch" ELSE "thrown"]
    /\ UNCHANGED <<allocations, capacity>>

\* await fetch(url) settles with response: the body is returned, or the
\* error is caught; a coverage error is rethrown, otherwise the loop backs
\* off before the next attempt or, after the last, throws lastError
fetch(response) ==
    /\ nws.pc = "fetch"
    /\ LET lastError == Thrown(response)
           answered == [nws EXCEPT !.responses = Append(@, response)]
       IN  nws' = IF lastError = "" THEN [answered EXCEPT !.pc = "returned"]
                  ELSE IF includes_outside_NWS_coverage(lastError)
                  THEN [answered EXCEPT !.pc = "thrown", !.lastError = lastError]
                  ELSE IF backoff(nws.attempt, nws.maxRetries)
                  THEN [answered EXCEPT !.pc = "setTimeout", !.lastError = lastError,
                                        !.waits = Append(@, delay(nws.attempt))]
                  ELSE [answered EXCEPT !.pc = "thrown", !.lastError = lastError,
                                        !.attempt = @ + 1]
    /\ UNCHANGED <<allocations, capacity>>

\* the backoff timer fires: attempt++, the next request is made (after a
\* backoff taken behind the last attempt the loop ends and lastError is thrown)
setTimeout ==
    /\ nws.pc = "setTimeout"
    /\ nws' = [nws EXCEPT !.attempt = @ + 1,
                          !.pc = IF nws.attempt + 1 < nws.maxRetries
                                 THEN "fetch" ELSE "thrown"]
    /\ UNCHANGED <<allocations, capacity>>

\* -------------------------------------------------------------- SpecNws
\* calls of fetchWithRetry; getGridpoint and getForecast call it with the
\* default maxRetries
NextNws ==
    \/ \E maxRetries \in 1..DefaultMaxRetries : fetchWithRetry(maxRetries)
    \/ \E response \in Responses : fetch(response)
    \/ setTimeout

SpecNws == Init /\ [][NextNws]_vars

\* every request settles (answered, refused or failed) and timers fire
SpecNwsFair ==
    /\ SpecNws
    /\ WF_vars(\E response \in Responses : fetch(response))
    /\ WF_vars(setTimeout)

\* ================================================================ claims
\* minute m lies in the half-open interval [period_start, period_end) of r,
\* a null period_end standing for +infinity
In(m, r) == r.period_start <= m /\ (r.period_end = NULL \/ m < r.period_end)

\* the intervals of a and b have a point in common (if they have one, they
\* have the later of the two starts)
Intersect(a, b) == \E m \in Minutes : In(m, a) /\ In(m, b)

\* period_end, if present, is strictly greater than period_start
Valid(r) == r.period_end = NULL \/ r.period_end > r.period_start

\* allocation r is active at view time T
ActiveAt(r, T) ==
    Instant(r.period_start) <= T /\ (r.period_end = NULL \/ Instant(r.period_end) > T)

\* what the application lists as active at T, over all stations
QueryActiveAt(rows, T) == UNION {useStationAllocations(rows, X, T) : X \in Stations}

\* start_A < end_B and start_B < end_A, a null end being +infinity
SpecOverlap(a, b) ==
    /\ (b.period_end = NULL \/ a.period_start < b.period_end)
    /\ (a.period_end = NULL \/ b.period_start < a.period_end)

\* the step is handleSubmit of client c: the form is validated and either
\* refused by validate() or sent
Submits(c) == sub'[c] # sub[c] /\ sub'[c].status \in {"client_overlap", "inflight"}

\* the step is the table's answer to the write client c awaits
Completes(c) == sub[c].status = "inflight" /\ sub'[c].status # "inflight"

\* the form's interval reaches past the start of an open-ended allocation of
\* the same aircraft among rows
ReachesPastOpen(rows, f) ==
    \E o \in rows : /\ o.tail_number = f.tail_number
                    /\ o.period_end = NULL
                    /\ (f.period_end = NULL \/ f.period_end > o.period_start)

\* x and f are non-empty intervals of one aircraft, one ending where the other starts
Touches(x, f) ==
    /\ x.tail_number = f.tail_number
    /\ Valid(x) /\ Valid(f)
    /\ (x.period_end = f.period_start \/ f.period_end = x.period_start)

\* C1 (Spec): any two committed allocations of one aircraft with different ids
\* have non-intersecting half-open intervals, a null period_end being +infinity.
C1_NoOverlap ==
    \A a \in db, b \in db :
        (a.tail_number = b.tail_number /\ a.id # b.id) => ~Intersect(a, b)

\* two allocations of one aircraft, both with a non-empty interval, are committed
C1_Witness ==
    \E a \in db, b \in db :
        /\ a.tail_number = b.tail_number /\ a.id # b.id
        /\ Valid(a) /\ Valid(b)

\* C6 (Spec): whenever a form is validated against a loaded list of the
\* aircraft's allocations, useOverlapValidation reports hasOverlap exactly when
\* some listed allocation E other than the excluded one has
\* start_candidate < end_E and start_E < end_candidate, null ends being +infinity.
C6_OverlapPredicate ==
    [][\A c \in Clients :
          (Submits(c) /\ cache[c].loaded)
          => (sub'[c].status = "client_overlap"
              <=> \E E \in cache[c].rows :
                      /\ E.tail_number = sub'[c].tail_number
                      /\ E.id # dialog[c].id
                      /\ SpecOverlap(E, sub'[c]))]_vars

\* C8 (SpecStore): the station listing at T holds exactly the committed
\* allocations of the station with period_start <= T and (period_end null or
\* period_end > T); of [s,e) followed by [e,null) for one aircraft, every T in
\* [s,e), the last tick before e included, lists the first only and T = e
\* lists the second only.
C8_PointInTime ==
    /\ \A T \in ViewTimes, X \in Stations :
          useStationAllocations(db, X, T)
              = {r \in db : r.station_iata = X /\ ActiveAt(r, T)}
    /\ \A a \in db, b \in db :
          ( /\ a.tail_number = b.tail_number
            /\ a.period_end # NULL /\ a.period_start < a.period_end
            /\ b.period_start = a.period_end /\ b.period_end = NULL )
          => /\ \A T \in ViewTimes :
                  (Instant(a.period_start) <= T /\ T < Instant(a.period_end))
                  => {r \in QueryActiveAt(db, T) : r.tail_number = a.tail_number} = {a}
             /\ {r \in QueryActiveAt(db, Instant(a.period_end) - 1) :
                    r.tail_number = a.tail_number} = {a}
             /\ {r \in QueryActiveAt(db, Instant(a.period_end)) :
                    r.tail_number = a.tail_number} = {b}

\* an aircraft sits at one station over [s,e) and at another from e on
C8_Witness ==
    \E a \in db, b \in db :
        /\ a.tail_number = b.tail_number /\ a.station_iata # b.station_iata
        /\ a.period_end # NULL /\ a.period_start < a.period_end
        /\ b.period_start = a.period_end /\ b.period_end = NULL

\* C9 (SpecStore): at every view time each aircraft has at most one active
\* allocation, hence is listed at no more than one station.
C9_NoDoubleBooking ==
    \A t \in Tails, T \in ViewTimes :
        LET shown == {r \in QueryActiveAt(db, T) : r.tail_number = t}
        IN  /\ Cardinality(shown) <= 1
            /\ Cardinality({r.station_iata : r \in shown}) <= 1

\* one aircraft has allocations at two stations, one of them active at some time
C9_Witness ==
    \E a \in db, b \in db :
        /\ a.tail_number = b.tail_number /\ a.station_iata # b.station_iata
        /\ Valid(a) /\ Valid(b)
        /\ \E T \in ViewTimes : a \in QueryActiveAt(db, T)

C3_AcceptRejectExact ==
    [][\A c \in Clients :
          LET f == sub'[c]
          IN  ( /\ (Submits(c) /\ f.status = "client_overlap") \/ Completes(c)
                /\ f.op = "insert"
                /\ Valid(f)
                /\ \A r \in db \cup cache[c].rows : Valid(r) )
              => /\ f.status # "ok"
                    <=> \E x \in db : x.tail_number = f.tail_number /\ Intersect(x, f)
                 /\ f.status = "ok"
                    => \E r \in db' \ db : /\ r.tail_number = f.tail_number
                                           /\ r.period_start = f.period_start
                                           /\ r.period_end = f.period_end]_vars

\* C4 (Spec): a Create whose interval touches the aircraft's other allocations
\* (one ends exactly where the other starts, in either order) passes
\* validate() against a list holding them and is committed by the table.
C4_TouchingLegal ==
    [][\A c \in Clients :
          LET f == sub'[c]
              mine(rows) == {x \in rows : x.tail_number = f.tail_number}
          IN  /\ ( /\ Submits(c) /\ f.op = "insert" /\ cache[c].loaded
                   /\ mine(cache[c].rows) # {}
                   /\ \A x \in mine(cache[c].rows) : Touches(x, f) )
                 => f.status = "inflight"
              /\ ( /\ Completes(c) /\ f.op = "insert"
                   /\ mine(db) # {}
                   /\ \A x \in mine(db) : Touches(x, f) )
                 => /\ f.status = "ok"
                    /\ \E r \in db' \ db : /\ r.period_start = f.period_start
                                           /\ r.period_end = f.period_end]_vars

\* a Create was committed that starts exactly where a listed, still committed
\* allocation of the aircraft ends
C4_Witness ==
    \E c \in Clients :
        /\ sub[c].op = "insert" /\ sub[c].status = "ok" /\ cache[c].loaded
        /\ \E x \in cache[c].rows \cap db :
              Touches(x, sub[c]) /\ x.period_end = sub[c].period_start

C7_UpdateExcludesSelf ==
    [][\A c \in Clients :
          LET f == sub'[c]
              others == {x \in db : /\ x.id # f.id
                                    /\ x.tail_number = f.tail_number
                                    /\ Intersect(x, f)}
          IN  /\ (Submits(c) /\ f.op = "update" /\ f.status = "client_overlap")
                 => \E x \in cache[c].rows : /\ x.id # f.id
                                            /\ x.tail_number = f.tail_number
                                            /\ SpecOverlap(x, f)
              /\ ( /\ Completes(c) /\ f.op = "update" /\ Valid(f)
                   /\ \E o \in db : o.id = f.id )
                 => IF others = {}
                    THEN /\ f.status = "ok"
                         /\ \E r \in db' : /\ r.id = f.id
                                           /\ r.period_start = f.period_start
                                           /\ r.period_end = f.period_end
                         /\ {r \in db' : r.id # f.id} = {r \in db : r.id # f.id}
                    ELSE f.status = "db_overlap" /\ db' = db]_vars

\* an Update extended the period_end of an allocation over its own listed
\* interval and was committed, another allocation of the aircraft being committed
C7_Witness ==
    \E c \in Clients :
        /\ sub[c].op = "update" /\ sub[c].status = "ok" /\ cache[c].loaded
        /\ \E o \in cache[c].rows :
              /\ o.id = sub[c].id
              /\ o.period_end # NULL /\ o.period_start < o.period_end
              /\ sub[c].period_start = o.period_start
              /\ sub[c].period_end # NULL /\ sub[c].period_end > o.period_end
        /\ \E x \in db : x.id # sub[c].id /\ x.tail_number = sub[c].tail_number /\ Valid(x)

\* clients c1 and c2 each sent a Create for the same aircraft, the two valid
\* intervals intersecting, each form validated against the same loaded list,
\* and the table has answered both
RacePair(c1, c2) ==
    /\ c1 # c2
    /\ sub[c1].op = "insert" /\ sub[c2].op = "insert"
    /\ sub[c1].tail_number = sub[c2].tail_number
    /\ Valid(sub[c1]) /\ Valid(sub[c2]) /\ Intersect(sub[c1], sub[c2])
    /\ cache[c1].loaded /\ cache[c2].loaded /\ cache[c1].rows = cache[c2].rows
    /\ sub[c1].status \in {"ok", "db_overlap", "db_range"}
    /\ sub[c2].status \in {"ok", "db_overlap", "db_range"}

\* a committed allocation of the aircraft intersects the form's interval
Blocked(f) == \E x \in db : x.tail_number = f.tail_number /\ Intersect(x, f)

C13_IntervalValidity ==
    [][\A c \in Clients :
          (Completes(c) /\ ~Valid(sub[c]))
          => sub'[c].status # "ok" /\ db' = db]_vars

\* C14 (Spec): every refused or rejected Create/Update leaves the table
\* unchanged, shows the submitting user an error and leaves the dialog open
\* with the form as submitted.
C14_RejectionsExplicit ==
    [][\A c \in Clients :
          LET f == sub'[c]
          IN  ( \/ Submits(c) /\ f.status = "client_overlap"
                \/ Completes(c) /\ f.status # "ok" )
              => /\ db' = db
                 /\ f.error # "none"
                 /\ dialog'[c].mode # "closed"
                 /\ Completes(c) => [f EXCEPT !.status = "inflight", !.error = "none"] = sub[c]]_vars

\* C15 (Spec): every overlap rejection of a Create/Update, by validate() or by
\* the table, names a committed allocation of the same aircraft (id and
\* station) whose interval intersects the candidate interval.
C15_ConflictIdentified ==
    [][\A c \in Clients :
          LET f == sub'[c]
          IN  ( \/ Submits(c) /\ f.status = "client_overlap"
                \/ Completes(c) /\ f.status = "db_overlap" )
              => \E x \in db : /\ x.id = f.conflict
                               /\ x.tail_number = f.tail_number
                               /\ Intersect(x, f)]_vars

\* C16 (Spec): the Update of an id that is not (or no longer) in the table
\* fails as not found; no row is created or modified and no id is handed out.
C16_UpdateNotFound ==
    [][\A c \in Clients :
          ( /\ Completes(c) /\ sub[c].op = "update"
            /\ \A r \in db : r.id # sub[c].id )
          => sub'[c].status = "not_found" /\ db' = db /\ nextId' = nextId]_vars

\* an edit of an allocation that was deleted while its dialog was open has failed
C16_Witness ==
    \E c \in Clients :
        /\ sub[c].op = "update" /\ sub[c].status = "not_found"
        /\ sub[c].id < nextId /\ \A r \in db : r.id # sub[c].id
        /\ dialog[c].mode = "edit"

\* the ids of a set of rows
ids(rows) == {r.id : r \in rows}

\* the step settles a delete of id issued from a listing
Deletes(id) == del.id = id /\ del.status = "inflight" /\ del'.status # "inflight"

\* C11 (SpecStore): a successful Delete(id) removes row id and nothing else,
\* leaves every other row as it was, and from then on neither the history of
\* any aircraft nor the active-at-T listing of any T holds id: an id once gone
\* never comes back.
C11_DeleteThenQuery ==
    [][\A id \in Ids :
          /\ (Deletes(id) /\ del'.status = "success")
             => /\ db' = {r \in db : r.id # id}
                /\ \A t \in Tails : id \notin ids(aircraft_periods(db', t))
                /\ \A T \in ViewTimes : id \notin ids(QueryActiveAt(db', T))
          /\ (id < nextId /\ id \notin ids(db))
             => /\ id < nextId' /\ id \notin ids(db')
                /\ \A t \in Tails : id \notin ids(aircraft_periods(db', t))
                /\ \A T \in ViewTimes : id \notin ids(QueryActiveAt(db', T))]_vars

\* an allocation was deleted while another allocation of the same aircraft
\* stays committed
C11_Witness ==
    /\ del.status = "success" /\ del.id \notin ids(db)
    /\ \E a \in db : Valid(a) /\ a.id > del.id

\* C17 (SpecStore): a Delete of an id that is not (or no longer) in the table
\* settles as not found, not as success, and the table is unchanged.
C17_DeleteNotFound ==
    [][\A id \in Ids :
          (Deletes(id) /\ id \notin ids(db))
          => del'.status = "not_found" /\ db' = db]_vars

\* the windows and filters the range query is asked with
RangeFilters ==
    {[carrierIds |-> k, stationIatas |-> x, tailNumber |-> t] :
        k \in {{}, {"AA"}}, x \in {{}, {"DFW"}}, t \in {"", "n1", "N"}}

\* row r passes the optional filters
Filtered(r, filters) ==
    /\ (filters.carrierIds # {} => r.carrier_id \in filters.carrierIds)
    /\ (filters.stationIatas # {} => r.station_iata \in filters.stationIatas)
    /\ (filters.tailNumber # "" => ilike(r.tail_number, filters.tailNumber))

Displayed(key) == qc[key].data

\* C12 (SpecView): stale responses are discarded.  Every result the page
\* displays for the current view time was requested for a view time of the
\* current minute: a response to a query of a superseded view time, whenever
\* it arrives, is stored under its own key and never replaces the data
\* displayed for the current view time.
C12_StaleDiscarded ==
    viewTime # NULL =>
        \A key \in Observed(viewTime, drawer) : \A d \in Displayed(key) :
            d.at \div TicksPerMinute = viewTime \div TicksPerMinute

\* the response to the superseded query arrived after the response to the
\* current one: the displayed summary was there when the notification of the
\* insert was handled (it is marked invalidated), the superseded summary was
\* requested before the insert and arrived after the notification (it is not)
C12_Witness ==
    /\ viewTime # NULL /\ feed = {} /\ db # {}
    /\ \E old \in SummaryKeys \ Observed(viewTime, drawer) :
          LET cur == SummaryKey(cacheKey(viewTime))
          IN  /\ Displayed(cur) # {} /\ qc[cur].isInvalidated
              /\ qc[old].data # {} /\ qc[old].fetch = {} /\ ~qc[old].isInvalidated
              /\ \A d \in qc[old].data :
                    /\ d.value = queryFn(old, {}, d.at)
                    /\ d.value # queryFn(old, db, d.at)

\* ------------------------------------------------------------------ C18
\* result x of the query of key is the answer of a table that holds row r
Counts(key, x, r) ==
    \E rows \in SUBSET db : r \in rows /\ x.value = queryFn(key, rows, x.at)

\* C18 (SpecCreate): read-your-write on Create.  Once a Create of row r for
\* station S has succeeded, for every cached summary entry and every cached
\* station-S entry whose view time T lies inside r's interval: the next
\* result to be shown (the response under way) includes r, and a cached
\* result from before the create is not served as current (it is marked
\* invalidated).
C18_ReadYourWrite ==
    \A r \in db : \A key \in SummaryKeys \cup StationKeys(r.station_iata) :
        /\ \A f \in qc[key].fetch : ActiveAt(r, f.at) => Counts(key, f, r)
        /\ \A d \in qc[key].data :
              ActiveAt(r, d.at) => Counts(key, d, r) \/ qc[key].isInvalidated

\* ------------------------------------------------------------------ C19
\* C19 (SpecView): change-notification invalidation.  Once the notifications
\* of the committed changes have been handled, no cached allocation-summary
\* entry and no cached station-allocations entry serves the state from
\* before a change: its data is the answer of the table as it is now, or the
\* entry is marked invalidated.
C19_ChangeInvalidates ==
    feed = {} =>
        \A key \in QueryKeys : \A d \in qc[key].data :
            d.value = queryFn(key, db, d.at) \/ qc[key].isInvalidated

\* ------------------------------------------------------------------ C21
\* C21 (SpecStore): the history query of an aircraft returns every committed
\* allocation of that aircraft, each once, whatever its period, returns no
\* allocation of another aircraft, and lists them by period_start descending.
C21_History ==
    \A t \in Tails :
        /\ aircraft_periods_ordered(db, t) # {}
        /\ \A s \in aircraft_periods_ordered(db, t) :
              /\ {s[i] : i \in DOMAIN s} = {r \in db : r.tail_number = t}
              /\ Len(s) = Cardinality({r \in db : r.tail_number = t})
              /\ \A i, j \in DOMAIN s : i < j => s[i].period_start >= s[j].period_start

\* an aircraft with an ended allocation and a later one, beside an aircraft
\* without any, or beside an allocation of another aircraft
C21_Witness ==
    \E a, b \in db :
        /\ a.tail_number = b.tail_number
        /\ a.period_end # NULL /\ a.period_end <= b.period_start
        /\ a.period_start < b.period_start
        /\ \E s \in aircraft_periods_ordered(db, a.tail_number) : s = <<b, a>>

\* ------------------------------------------------------------------ C22
\* C22 (Spec): no duplicate submission.  A write request of a dialog comes
\* into being only by a submit of its form; no submit is accepted while the
\* dialog's request is in flight; and the answer to a request, success or
\* failure, leaves no request in flight: a failed write is not issued again
\* by itself.
C22_NoDuplicateSubmission ==
    [][\A c \in Clients :
          /\ Submits(c) => sub[c].status # "inflight"
          /\ (sub'[c].status = "inflight" /\ sub'[c] # sub[c]) =>
                 \E ps \in Minutes, pe \in Ends : handleSubmit(c, DefaultCarrier, ps, pe)
          /\ Completes(c) =>
                 /\ sub'[c].status \in {"ok", "db_overlap", "db_range", "not_found"}
                 /\ [sub'[c] EXCEPT !.status = "inflight", !.error = "none"] = sub[c]
                 /\ Cardinality(db' \ db) <= 1]_vars

\* a write was rejected by the table; the dialog is open with nothing in flight
C22_Witness ==
    \E c \in Clients :
        /\ dialog[c].mode # "closed"
        /\ sub[c].status \in {"db_overlap", "db_range", "not_found"}

Numeric(str) ==
    /\ \E i \in DOMAIN str : str[i] \in Digit
    /\ \A i \in DOMAIN str : \/ str[i] \in Digit
                              \/ (str[i] = "-" /\ i = 1)
                              \/ (str[i] = "." /\ i < Len(str) /\ str[i + 1] \in Digit)
    /\ Cardinality({i \in DOMAIN str : str[i] = "."}) <= 1

\* the numeral str denotes a number below zero
Negative(str) ==
    /\ Numeric(str) /\ Head(str) = "-"
    /\ \E i \in DOMAIN str : str[i] \in Digit \ {"0"}

\* the step is a save of station a's capacity that went through
Saves(a) ==
    /\ a # "" /\ editingStation = a /\ editingStation' = ""
    /\ editValue' = editValue

\* C24 (SpecCapacity): after every step each airport's total_spots is null
\* or an integer >= 0, and a save goes through only with an empty text
\* (unlimited) or with a numeral that is not negative: a save with a negative
\* or non-numeric text is rejected (and a rejected save changes nothing).
C24_CapacityNonNegative ==
    [][/\ \A a \in Stations : airports'[a] = null \/ \A n \in airports'[a] : n >= 0
       /\ \A a \in Stations :
             Saves(a) => \/ trim(editValue) = <<>>
                         \/ (Numeric(trim(editValue)) /\ ~Negative(trim(editValue)))]_vars

\* ------------------------------------------------------------------ C25
\* C25 (SpecStore): the client check and the exclusion constraint agree.  For
\* every aircraft, every candidate interval the table can build a range from
\* (period_end = period_start included), as a new allocation or as a new
\* version of one of the aircraft's allocations, and the aircraft's list
\* loaded completely from the table as it is: useOverlapValidation reports an
\* overlap exactly when no_overlapping_periods would reject the write.
C25_ClientAgreesWithConstraint ==
    \A t \in Tails, ps \in Minutes, pe \in Ends :
        \A x \in {NoId} \cup ids(aircraft_periods(db, t)) :
            LET existingAllocations ==
                    [key |-> t, loaded |-> TRUE, rows |-> aircraft_periods(db, t)]
                new == Row(IF x = NoId THEN nextId ELSE x, t, "DFW", DefaultCarrier, ps, pe)
            IN  ~RangeError(ps, pe)
                => (useOverlapValidation(t, ps, pe, existingAllocations, x).hasOverlap
                       <=> no_overlapping_periods(db, new) # {})

\* ------------------------------------------------------------------ C26
\* C26 (SpecEdit): edit-by-id never creates.  Every write request issued
\* from a dialog that was opened with allocationId X, loaded or not, is an
\* update of X, and its answer adds no row to the table.
C26_EditNeverCreates ==
    [][\A c \in Clients :
          /\ (dialog[c].mode \in {"byId", "edit"} /\ Submits(c)
                 /\ sub'[c].status = "inflight")
             => sub'[c].op = "update" /\ sub'[c].id = dialog[c].id
          /\ (dialog[c].mode \in {"byId", "edit"} /\ Completes(c))
             => ids(db') \subseteq ids(db)]_vars

\* ------------------------------------------------------------------ C27
\* the rows the table holds for the form client c submitted
Written(c) ==
    {r \in db : /\ r.tail_number = sub[c].tail_number
                /\ r.station_iata = sub[c].station_iata
                /\ r.period_start = sub[c].period_start
                /\ r.period_end = sub[c].period_end}

\* C27 (SpecPanel): history cache coherence.  After a Create from the dialog
\* has succeeded for the aircraft whose panel is open, and the change
\* notification has been handled, the panel's ['aircraft-periods', tail]
\* entry has been invalidated: observed by the panel it was refetched, so
\* the history it shows lists the row written, also when the dialog closed
\* before the notification arrived.
C27_HistoryCoherent ==
    (/\ selectedTailNumber # ""
     /\ sub[Viewer].status = "ok"
     /\ sub[Viewer].tail_number = selectedTailNumber
     /\ feed = {})
    => /\ cache[Viewer].key = selectedTailNumber
       /\ cache[Viewer].loaded
       /\ Written(Viewer) \subseteq cache[Viewer].rows

\* ------------------------------------------------------------------ C28
\* C28 (SpecStore): single open-ended allocation.  Each aircraft has at most
\* one allocation with period_end = null, and no other allocation of that
\* aircraft starts at or after the start of the open-ended one.
C28_SingleOpenEnded ==
    \A o \in db : o.period_end = NULL =>
        \A r \in db : (r # o /\ r.tail_number = o.tail_number) =>
            /\ r.period_end # NULL
            /\ r.period_start < o.period_start

\* ------------------------------------------------------------------ C29
\* what the query of key answers when the allocations active are `active`
Answer(key, active) ==
    IF key[1] = "allocation-summary"
    THEN [a \in Stations |-> Cardinality({r \in active : r.station_iata = a})]
    ELSE {r \in active : r.station_iata = key[2]}

\* the view times of the minute of key
Within(key) == {T \in ViewTimes : T \div TicksPerMinute = key[Len(key)]}

\* period bounds being minute-aligned, the summary and the station list
\* cached (or under way) under a minute-rounded key are the answer from
\* QueryActiveAt(T) for every view time T of that minute, over the table as
\* it was when the query ran, although the query ran with the unrounded
\* debounced time
MinuteKeysSound ==
    \A key \in QueryKeys : \A x \in qc[key].data \cup qc[key].fetch :
        \E rows \in SUBSET db : \A T \in Within(key) :
            x.value = Answer(key, QueryActiveAt(rows, T))

\* a summary requested at the second instant of minute 0 is displayed, and a
\* station list requested at minute 1 lists the allocation that starts then
C29_Witness ==
    /\ \E d \in qc[SummaryKey(0)].data : d.at = 1
    /\ \E d \in qc[StationKey("DFW", 1)].data : d.value # {}

\* once the view time stops changing, the debounced time reaches it and the
\* summary displayed then, and the station list if the drawer stays open,
\* were requested for a view time of its minute
EventuallyFinal ==
    \A t \in Instants :
        <>[](sliderTime = t) =>
            /\ <>[](/\ viewTime = t
                    /\ \E d \in Displayed(SummaryKey(cacheKey(t))) :
                          cacheKey(d.at) = cacheKey(t))
            /\ <>[](drawer = "DFW") =>
                   <>[](\E d \in Displayed(StationKey("DFW", cacheKey(t))) :
                          cacheKey(d.at) = cacheKey(t))

\* C29 (SpecMinuteFair): minute-rounded cache keys are sound.  Provided every
\* period_start and period_end is minute-aligned, the summary and station
\* list cached under a minute-rounded key equal QueryActiveAt(T) for every
\* view time T within that minute, although the query was executed with the
\* unrounded debounced time; and once the view time stops changing the
\* displayed result is eventually the one for the final view time.
C29_MinuteKeys == []MinuteKeysSound /\ EventuallyFinal

\* ------------------------------------------------------------------ C30
\* the requests made by the running call
Requests == Len(nws.responses) + (IF nws.pc = "fetch" THEN 1 ELSE 0)

\* the call is over
Over == nws.pc \in {"returned", "thrown"}

\* at most maxRetries requests; the first successful response is returned
\* and ends the call; a 404 ends it with the coverage error; otherwise the
\* error of the last of maxRetries requests is thrown; the k-th wait lasts
\* baseDelay * 2^(k-1) and follows a failed attempt that is not the last
RetryBounded ==
    LET n == Len(nws.responses)
    IN  /\ Requests <= nws.maxRetries
        /\ \A i \in 1..n :
              Thrown(nws.responses[i]) = "" \/ nws.responses[i] = "404"
                  => i = n /\ Over
        /\ nws.pc = "returned" <=> (n > 0 /\ Thrown(nws.responses[n]) = "")
        /\ nws.pc = "thrown" =>
              /\ n > 0 /\ nws.lastError = Thrown(nws.responses[n])
              /\ nws.responses[n] = "404" \/ n = nws.maxRetries
        /\ \A k \in 1..Len(nws.waits) : nws.waits[k] = baseDelay * 2^(k - 1)
        /\ Len(nws.waits) = IF nws.pc \in {"setTimeout", "fetch"} \/ n = 0 THEN n
                            ELSE n - 1
        /\ nws.pc = "setTimeout" => n < nws.maxRetries

\* C30 (SpecNwsFair): bounded retry.  fetchWithRetry always terminates after
\* at most maxRetries (default 3) requests; it returns on the first
\* successful response without further requests, gives up on HTTP 404
\* without another request, and otherwise throws the last error after the
\* final attempt, waiting with exponential backoff only between attempts and
\* not after the last one.
C30_BoundedRetry == []RetryBounded /\ (nws.pc = "fetch" ~> Over)

\* with the default maxRetries three requests failed, the last error was
\* thrown after waits of 1000 and 2000
C30_Witness ==
    /\ nws.pc = "thrown" /\ nws.maxRetries = DefaultMaxRetries
    /\ Len(nws.responses) = DefaultMaxRetries
    /\ nws.waits = <<1000, 2000>>
    /\ nws.lastError = "fetch failed"
====
